---- MODULE Spec2Model ----
(***************************************************************************)
(* A model of the quakefeeds package: the QuakeFeed class (construction,   *)
(* refresh, the event generators, the Google-map renderer and writer), the *)
(* older module-level functions get_data / generate_map, and the command   *)
(* line entry points built on them.                                        *)
(*                                                                         *)
(* Conventions.  Floating point quantities of the feed (magnitude,         *)
(* longitude, latitude, depth) are carried as integers in tenths.  A       *)
(* Python dict is a TLA+ function whose DOMAIN is its key set, a list is a *)
(* sequence.  A text (HTML, file contents) is a sequence of pieces, so     *)
(* that what print() appends is visible.  The HTTP server, the JSON        *)
(* decoder, Jinja2 and docopt are collaborators outside the repository:    *)
(* the server is a nondeterministic choice of response, the others are     *)
(* operators with the behaviour their callers rely on.                     *)
(***************************************************************************)
EXTENDS Integers, Sequences, FiniteSets, TLC

VARIABLES
    feed,       \* the QuakeFeed object of the client, NoFeed before construction
    requests,   \* number of HTTP requests issued so far
    calls,      \* number of operations performed so far (bounds the run)
    call,       \* the last operation: its inputs and its outcome
    lastGood,   \* history: the body of the most recent successful fetch
    epoch,      \* history: number of successful refreshes of the feed
    iters,      \* the generator objects obtained from the feed's properties
    files,      \* the file system: path -> text, for the paths that exist
    stdout,     \* what has been printed to standard output
    sink,       \* what has been written to the caller's open text handle
    proc        \* the last command-line process: its argv and how it ended

vars == <<feed, requests, calls, call, lastGood, epoch, iters, files, stdout, sink, proc>>

----------------------------------------------------------------------------
(* Bounds of the model *)

MaxEvents == 2      \* longest feature list enumerated exhaustively
MaxCalls == 3       \* operations per run
MaxOver == 2        \* how far past max_points the long feeds go
MaxArgs == 4        \* longest command line

----------------------------------------------------------------------------
(* Module constants of quakefeeds/__init__.py and quakefeeds.py *)

URL == <<"http://earthquake.usgs.gov/earthquakes/feed/v1.0/summary/", "{}", "_", "{}", ".geojson">>

ALLOWED_LEVELS == {"significant", "4.5", "2.5", "1.0", "all"}
ALLOWED_PERIODS == {"hour", "day", "week", "month"}
MAP_STYLES == {"plain", "titled"}

max_points == 300

\* str.lower(), on the strings the model passes as level and period
Lower(s) ==
    CASE s = "ALL" -> "all"
      [] s = "Significant" -> "significant"
      [] s = "Week" -> "week"
      [] s = "DAY" -> "day"
      [] OTHER -> s

\* URL.format(level, period): the two placeholders filled in order
UrlFormat(level, period) == <<URL[1], level, URL[3], period, URL[5]>>

Min(a, b) == IF a <= b THEN a ELSE b

----------------------------------------------------------------------------
(* The GeoJSON documents the server may return *)

\* One feature (a place is a text and, in the long feeds, a number): properties.mag / place / time and geometry.coordinates
Event(mag, place, time, coords) ==
    [properties |-> [mag |-> mag, place |-> place, time |-> time],
     geometry |-> [coordinates |-> coords]]

EvA == Event(45, <<"10km N of X", 0>>, 1500, <<-1200, 350, 52>>)
EvB == Event(21, <<"5km S of Y", 0>>, 2999, <<-1195, 348, 31>>)
\* a position with a fourth element, and one without a depth
EvFour == Event(30, <<"3km E of Z", 0>>, 4000, <<-1100, 300, 10, 7>>)
EvTwo == Event(12, <<"1km W of W", 0>>, 5001, <<-1000, 200>>)

\* the i-th feature of a long feed: every field depends on the index
EvAt(i) == Event(i % 90, <<"km N of", i>>, 1000 * i + 7, <<-i, i, i % 50>>)

SeqsUpTo(S, n) == UNION {[1..k -> S] : k \in 0..n}

FeedUrl == UrlFormat("all", "day")

\* metadata: generated, title, count always present, url present or not
Metadata(count, hasUrl) ==
    IF hasUrl
    THEN [generated |-> 86400123, title |-> "USGS All Earthquakes, Past Day",
          count |-> count, url |-> FeedUrl]
    ELSE [generated |-> 86400123, title |-> "USGS All Earthquakes, Past Day",
          count |-> count]

Doc(count, hasUrl, features) ==
    [type |-> "FeatureCollection",
     metadata |-> Metadata(count, hasUrl),
     bbox |-> <<-1800, -900, 0, 1800, 900, 7000>>,
     features |-> features]

\* the feature lists enumerated: every list of at most MaxEvents features cut
\* from the cycle EvA, EvB, EvTwo, starting at EvA or at EvB
Cyc(i) == CASE i % 3 = 1 -> EvA [] i % 3 = 2 -> EvB [] OTHER -> EvTwo

Features == {[i \in 1..k |-> Cyc(i + s)] : k \in 0..MaxEvents, s \in 0..1}

\* documents of the feed-lifecycle specification: count and the feature list
\* vary independently, as nothing on the wire ties them together
Docs == {Doc(c, u, f) : c \in 0..MaxEvents, u \in BOOLEAN, f \in Features}

\* a response body: text that is not JSON, or the text of a JSON document
TextBody == [json |-> FALSE]
JsonBody(d) == [json |-> TRUE, doc |-> d]

Statuses == {200, 204, 404}

\* a 200 response carries any body; the other statuses carry an error page or
\* one JSON document
ErrDoc == Doc(1, TRUE, <<EvB>>)

ResponsesOf(docs) ==
    [status : {200}, body : {TextBody} \cup {JsonBody(d) : d \in docs}]
    \cup [status : Statuses \ {200}, body : {TextBody, JsonBody(ErrDoc)}]

Responses == ResponsesOf(Docs)

\* response.json() / json.loads: defined only on a parsable body
Parsable(body) == body.json
Json(body) == body.doc

----------------------------------------------------------------------------
(* The QuakeFeed object *)

NoFeed == [alive |-> FALSE]
Feed(d) == [alive |-> TRUE, data |-> d]

Levels == {"ALL", "4.5", "bogus", ""}
Periods == {"day", "Week", "year"}

ValidPair(level, period) ==
    Lower(level) \in ALLOWED_LEVELS /\ Lower(period) \in ALLOWED_PERIODS

\* QuakeFeed.__init__ as a function of its arguments and of the response the
\* server gives if asked: the outcome, the requests sent, whether the body was
\* handed to the JSON decoder, and the object produced (NoFeed when it raises)
QuakeFeedInit_NoPeriodCheck(level, period, resp) ==
    IF Lower(level) \notin ALLOWED_LEVELS
    THEN [outcome |-> "ValueError", msg |-> <<"invalid severity level">>,
          sent |-> 0, parsed |-> FALSE, obj |-> NoFeed]
    ELSE IF resp.status # 200
    THEN [outcome |-> "IOError", msg |-> <<"HTTP status code", resp.status>>,
          sent |-> 1, parsed |-> FALSE, obj |-> NoFeed]
    ELSE IF ~Parsable(resp.body)
    THEN [outcome |-> "JSONDecodeError", msg |-> << >>,
          sent |-> 1, parsed |-> TRUE, obj |-> NoFeed]
    ELSE [outcome |-> "ok", msg |-> << >>,
          sent |-> 1, parsed |-> TRUE, obj |-> Feed(Json(resp.body))]

QuakeFeedInit_FetchFirst(level, period, resp) ==
    IF ~ValidPair(level, period)
    THEN [outcome |-> "ValueError", msg |-> <<"invalid severity level">>,
          sent |-> 1, parsed |-> FALSE, obj |-> NoFeed]
    ELSE IF resp.status # 200
    THEN [outcome |-> "IOError", msg |-> <<"HTTP status code", resp.status>>,
          sent |-> 1, parsed |-> FALSE, obj |-> NoFeed]
    ELSE IF ~Parsable(resp.body)
    THEN [outcome |-> "JSONDecodeError", msg |-> << >>,
          sent |-> 1, parsed |-> TRUE, obj |-> NoFeed]
    ELSE [outcome |-> "ok", msg |-> << >>,
          sent |-> 1, parsed |-> TRUE, obj |-> Feed(Json(resp.body))]

QuakeFeedInit_ErrorStatusOnly(level, period, resp) ==
    IF Lower(level) \notin ALLOWED_LEVELS
    THEN [outcome |-> "ValueError", msg |-> <<"invalid severity level">>,
          sent |-> 0, parsed |-> FALSE, obj |-> NoFeed]
    ELSE IF Lower(period) \notin ALLOWED_PERIODS
    THEN [outcome |-> "ValueError", msg |-> <<"invalid period">>,
          sent |-> 0, parsed |-> FALSE, obj |-> NoFeed]
    ELSE IF resp.status >= 400
    THEN [outcome |-> "IOError", msg |-> <<"HTTP status code", resp.status>>,
          sent |-> 1, parsed |-> FALSE, obj |-> NoFeed]
    ELSE IF ~Parsable(resp.body)
    THEN [outcome |-> "JSONDecodeError", msg |-> << >>,
          sent |-> 1, parsed |-> TRUE, obj |-> NoFeed]
    ELSE [outcome |-> "ok", msg |-> << >>,
          sent |-> 1, parsed |-> TRUE, obj |-> Feed(Json(resp.body))]

QuakeFeedInit(level, period, resp) ==
    IF Lower(level) \notin ALLOWED_LEVELS
    THEN [outcome |-> "ValueError", msg |-> <<"invalid severity level">>,
          sent |-> 0, parsed |-> FALSE, obj |-> NoFeed]
    ELSE IF Lower(period) \notin ALLOWED_PERIODS
    THEN [outcome |-> "ValueError", msg |-> <<"invalid period">>,
          sent |-> 0, parsed |-> FALSE, obj |-> NoFeed]
    ELSE IF resp.status # 200
    THEN [outcome |-> "IOError", msg |-> <<"HTTP status code", resp.status>>,
          sent |-> 1, parsed |-> FALSE, obj |-> NoFeed]
    ELSE IF ~Parsable(resp.body)
    THEN [outcome |-> "JSONDecodeError", msg |-> << >>,
          sent |-> 1, parsed |-> TRUE, obj |-> NoFeed]
    ELSE [outcome |-> "ok", msg |-> << >>,
          sent |-> 1, parsed |-> TRUE, obj |-> Feed(Json(resp.body))]

\* get_data of the older module quakefeeds.py: the level and period are compared
\* as given; urlopen raises HTTPError for an error status and returns any 2xx
GetDataResult(level, period, resp) ==
    IF level \notin ALLOWED_LEVELS
    THEN [outcome |-> "ValueError", msg |-> <<"invalid severity level">>,
          sent |-> 0, parsed |-> FALSE, obj |-> NoFeed]
    ELSE IF period \notin ALLOWED_PERIODS
    THEN [outcome |-> "ValueError", msg |-> <<"invalid period">>,
          sent |-> 0, parsed |-> FALSE, obj |-> NoFeed]
    ELSE IF resp.status >= 400
    THEN [outcome |-> "HTTPError", msg |-> <<"HTTP Error", resp.status>>,
          sent |-> 1, parsed |-> FALSE, obj |-> NoFeed]
    ELSE IF ~Parsable(resp.body)
    THEN [outcome |-> "JSONDecodeError", msg |-> << >>,
          sent |-> 1, parsed |-> TRUE, obj |-> NoFeed]
    ELSE [outcome |-> "ok", msg |-> << >>,
          sent |-> 1, parsed |-> TRUE, obj |-> Feed(Json(resp.body))]

\* whether the url property, self.data["metadata"]["url"], finds its key
HasUrl(f) == "url" \in DOMAIN f.data.metadata

\* __len__: self.data["metadata"]["count"]
Length(f) == f.data.metadata.count

\* QuakeFeed.refresh as a function of the object and of the response: the
\* outcome, the requests sent, and the data the object holds afterwards
RefreshResult_AssignFirst(f, resp) ==
    IF ~HasUrl(f)
    THEN [outcome |-> "KeyError", msg |-> <<"url">>, sent |-> 0, data |-> f.data]
    ELSE IF ~Parsable(resp.body)
    THEN [outcome |-> "JSONDecodeError", msg |-> << >>, sent |-> 1, data |-> f.data]
    ELSE IF resp.status # 200
    THEN [outcome |-> "IOError", msg |-> <<"HTTP status code", resp.status>>,
          sent |-> 1, data |-> Json(resp.body)]
    ELSE [outcome |-> "ok", msg |-> << >>, sent |-> 1, data |-> Json(resp.body)]

RefreshResult(f, resp) ==
    IF ~HasUrl(f)
    THEN [outcome |-> "KeyError", msg |-> <<"url">>, sent |-> 0, data |-> f.data]
    ELSE IF resp.status # 200
    THEN [outcome |-> "IOError", msg |-> <<"HTTP status code", resp.status>>,
          sent |-> 1, data |-> f.data]
    ELSE IF ~Parsable(resp.body)
    THEN [outcome |-> "JSONDecodeError", msg |-> << >>, sent |-> 1, data |-> f.data]
    ELSE [outcome |-> "ok", msg |-> << >>, sent |-> 1, data |-> Json(resp.body)]

----------------------------------------------------------------------------
(* The generators behind the properties events, event_times, locations,     *)
(* places, magnitudes and depths                                            *)

Kinds == {"events", "event_times", "locations", "places", "magnitudes", "depths"}

\* datetime.fromtimestamp(ms / 1000.0, tz=timezone.utc)
FromTimestamp(ms) == [second |-> ms \div 1000, microsecond |-> (ms % 1000) * 1000, tz |-> "UTC"]

\* whether the loop body of the generator evaluates without raising
CanProject(kind, event) ==
    kind = "depths" => Len(event.geometry.coordinates) >= 3

\* the value the loop body yields for one event
Project(kind, event) ==
    CASE kind = "events" -> event
      [] kind = "event_times" -> FromTimestamp(event.properties.time)
      [] kind = "locations" ->
            SubSeq(event.geometry.coordinates, 1, Min(2, Len(event.geometry.coordinates)))
      [] kind = "places" -> event.properties.place
      [] kind = "magnitudes" -> event.properties.mag
      [] kind = "depths" -> event.geometry.coordinates[3]

\* a generator object: "new" until its first next(), which evaluates
\* self.data["features"] and keeps iterating that list object
NoIter == [state |-> "absent"]
NewGen(kind) == [state |-> "new", kind |-> kind, src |-> << >>, pos |-> 0, out |-> << >>,
                 stale |-> FALSE]

\* one next() on a generator: the generator afterwards and what next() gave
NextOf_SharedCursor(g, other, features) ==
    LET src == IF g.state = "new" THEN features ELSE g.src
        at == IF other.state \in {"running", "done", "failed"} /\ g.state = "new"
              THEN other.pos ELSE g.pos
    IN  IF g.state \in {"done", "failed"}
        THEN [gen |-> g, outcome |-> "StopIteration"]
        ELSE IF at >= Len(src)
        THEN [gen |-> [g EXCEPT !.state = "done", !.src = src, !.pos = at],
              outcome |-> "StopIteration"]
        ELSE IF ~CanProject(g.kind, src[at + 1])
        THEN [gen |-> [g EXCEPT !.state = "failed", !.src = src, !.pos = at],
              outcome |-> "IndexError"]
        ELSE [gen |-> [g EXCEPT !.state = "running", !.src = src, !.pos = at + 1,
                                !.out = Append(g.out, Project(g.kind, src[at + 1]))],
              outcome |-> "yield"]

NextOf(g, other, features) ==
    LET src == IF g.state = "new" THEN features ELSE g.src
    IN  IF g.state \in {"done", "failed"}
        THEN [gen |-> g, outcome |-> "StopIteration"]
        ELSE IF g.pos = Len(src)
        THEN [gen |-> [g EXCEPT !.state = "done", !.src = src], outcome |-> "StopIteration"]
        ELSE IF ~CanProject(g.kind, src[g.pos + 1])
        THEN [gen |-> [g EXCEPT !.state = "failed", !.src = src], outcome |-> "IndexError"]
        ELSE [gen |-> [g EXCEPT !.state = "running", !.src = src, !.pos = g.pos + 1,
                                !.out = Append(g.out, Project(g.kind, src[g.pos + 1]))],
              outcome |-> "yield"]

\* list(generator) on a fresh generator: next() until it stops or raises
RECURSIVE Drain(_, _)
Drain(g, features) ==
    LET r == NextOf(g, NoIter, features)
    IN  IF r.outcome = "yield" THEN Drain(r.gen, features) ELSE r.gen

ListOf(kind, features) == Drain(NewGen(kind), features).out

----------------------------------------------------------------------------
(* Operations on the feed *)

NoCall == [op |-> "none"]
NoData == [type |-> "none"]
Slots == {"g1", "g2"}

InitCommon ==
    /\ feed = NoFeed
    /\ requests = 0
    /\ calls = 0
    /\ call = NoCall
    /\ lastGood = NoData
    /\ epoch = 0
    /\ iters = [s \in Slots |-> NoIter]
    /\ files = << >>
    /\ stdout = << >>
    /\ sink = << >>
    /\ proc = NoCall

\* feed = QuakeFeed(level, period)
Construct(level, period, resp) ==
    /\ ~feed.alive
    /\ calls < MaxCalls
    /\ LET r == QuakeFeedInit(level, period, resp)
       IN  /\ feed' = r.obj
           /\ requests' = requests + r.sent
           /\ lastGood' = IF r.outcome = "ok" THEN Json(resp.body) ELSE lastGood
           /\ call' = [op |-> "construct", level |-> level, period |-> period,
                       status |-> resp.status, json |-> Parsable(resp.body),
                       outcome |-> r.outcome, msg |-> r.msg, parsed |-> r.parsed,
                       reqBefore |-> requests, ret |-> r.obj]
    /\ calls' = calls + 1
    /\ UNCHANGED <<epoch, iters, files, stdout, sink, proc>>

\* data = get_data(level, period), the function of the older module
GetData(level, period, resp) ==
    /\ ~feed.alive
    /\ calls < MaxCalls
    /\ LET r == GetDataResult(level, period, resp)
       IN  /\ requests' = requests + r.sent
           /\ call' = [op |-> "get_data", level |-> level, period |-> period,
                       status |-> resp.status, json |-> Parsable(resp.body),
                       outcome |-> r.outcome, msg |-> r.msg, parsed |-> r.parsed,
                       reqBefore |-> requests, ret |-> r.obj]
    /\ calls' = calls + 1
    /\ UNCHANGED <<feed, lastGood, epoch, iters, files, stdout, sink, proc>>

\* feed.refresh()
Refresh(resp) ==
    /\ feed.alive
    /\ calls < MaxCalls
    /\ LET r == RefreshResult(feed, resp)
       IN  /\ feed' = [feed EXCEPT !.data = r.data]
           /\ requests' = requests + r.sent
           /\ lastGood' = IF r.outcome = "ok" THEN Json(resp.body) ELSE lastGood
           /\ epoch' = IF r.outcome = "ok" THEN epoch + 1 ELSE epoch
           /\ iters' = [s \in Slots |->
                          IF r.outcome = "ok" /\ iters[s].state # "absent"
                          THEN [iters[s] EXCEPT !.stale = TRUE] ELSE iters[s]]
           /\ call' = [op |-> "refresh", status |-> resp.status, json |-> Parsable(resp.body),
                       outcome |-> r.outcome, msg |-> r.msg, sent |-> r.sent,
                       reqBefore |-> requests,
                       offered |-> Parsable(resp.body) /\ Json(resp.body) # feed.data,
                       changed |-> r.data # feed.data]
    /\ calls' = calls + 1
    /\ UNCHANGED <<files, stdout, sink, proc>>

\* g = feed.<kind>: reading the property makes a generator object
NewIter(slot, kind) ==
    /\ feed.alive
    /\ iters' = [iters EXCEPT ![slot] = NewGen(kind)]
    /\ UNCHANGED <<feed, requests, calls, call, lastGood, epoch, files, stdout, sink, proc>>

\* next(g)
Advance(slot) ==
    /\ iters[slot].state \in {"new", "running"}
    /\ LET other == CHOOSE t \in Slots : t # slot
           r == NextOf(iters[slot], iters[other], feed.data.features)
       IN  iters' = [iters EXCEPT ![slot] = r.gen]
    /\ UNCHANGED <<feed, requests, calls, call, lastGood, epoch, files, stdout, sink, proc>>

----------------------------------------------------------------------------
(* The feed lifecycle: construction (or get_data) and refresh against every *)
(* response of the server                                                   *)

Init == InitCommon

ConstructAny == \E l \in Levels, p \in Periods, resp \in Responses : Construct(l, p, resp)
GetDataAny == \E l \in Levels, p \in Periods, resp \in Responses : GetData(l, p, resp)
RefreshAny == \E resp \in Responses : Refresh(resp)

Next == ConstructAny \/ GetDataAny \/ RefreshAny

Spec == Init /\ [][Next]_vars

----------------------------------------------------------------------------
(* The generators: a feed is constructed (and may be refreshed) and the      *)
(* client reads the six properties and advances the generators in any order *)

\* the server answers 200 with a well-formed document whose features are the
\* first k of EvB, EvTwo, EvA, ...; failing fetches are the subject of Spec
IterDocs == {Doc(k, TRUE, [i \in 1..k |-> Cyc(i + 1)]) : k \in 0..MaxEvents}
IterResponses == [status : {200}, body : {JsonBody(d) : d \in IterDocs}]

ConstructIter == \E resp \in IterResponses : Construct("4.5", "day", resp)
RefreshIter == \E resp \in IterResponses : Refresh(resp)
NewIterAny == \E slot \in Slots, kind \in Kinds : NewIter(slot, kind)
AdvanceAny == \E slot \in Slots : Advance(slot)

NextIter == ConstructIter \/ RefreshIter \/ NewIterAny \/ AdvanceAny

SpecIter == Init /\ [][NextIter]_vars

----------------------------------------------------------------------------
(* The map renderer: create_google_map, write_google_map, generate_map *)

\* keyword arguments: each of env, style, tpfile is passed or Absent
Absent == "<absent>"
Kwargs == [env : {Absent, "custom_env", "not_an_env"},
           style : {Absent, "titled", "fancy"},
           tpfile : {Absent, "custom.html", "missing.html"}]
NoKwargs == [env |-> Absent, style |-> Absent, tpfile |-> Absent]

\* isinstance(env, Environment)
IsEnvironment(env) == env = "custom_env"

\* the templates an environment can load: the package's own for the
\* PackageLoader("quakefeeds") environment, one file for the caller's
TemplatesOf(env) ==
    IF env = "package_env" THEN {<<"plain", ".html">>, <<"titled", ".html">>}
    ELSE {<<"custom.html", "">>}

\* lon, lat, _ = coordinates: unpacking needs exactly three elements
Unpacks(event) == Len(event.geometry.coordinates) = 3

\* the tuple appended to map_data for one event
Point(event) ==
    <<event.geometry.coordinates[2], event.geometry.coordinates[1],
      event.properties.mag, event.properties.place>>

\* self.data["features"][:max_points]
Sliced_OneMore(features) == SubSeq(features, 1, Min(Len(features), max_points + 1))

Sliced(features) == SubSeq(features, 1, Min(Len(features), max_points))

\* a text is a sequence of pieces, each a string or the print of a number
Str(s) == <<s, 0>>
Num(n) == <<"#", n>>

\* the row a template writes for one point, and the rows of all points
RowOf(point) ==
    <<Num(point[1]), Num(point[2]), Str("M"), Num(point[3]), Str(": "), point[4], Str("\n")>>
RowsOf(map_data) ==
    [j \in 1..(7 * Len(map_data)) |-> RowOf(map_data[((j - 1) \div 7) + 1])[((j - 1) % 7) + 1]]

\* template.render(data=map_data, feed=self): the document starts with what
\* the template takes from the feed and holds one row per point
Render(tpfile, map_data, f) ==
    <<Str(tpfile[1]), Str(tpfile[2]), Str(f.data.metadata.title)>>
    \o RowsOf(map_data)
    \o <<Str("</html>")>>

Raise(outcome, msg) == [outcome |-> outcome, msg |-> msg, map_data |-> << >>, html |-> << >>]

\* create_google_map(**kwargs): the outcome, the points collected and the HTML
CreateGoogleMapResult_NoStyleCheck(f, kw) ==
    LET env == IF kw.env = Absent THEN "package_env" ELSE kw.env
        style == IF kw.style = Absent THEN "plain" ELSE kw.style
        tpfile == IF kw.env = Absent THEN <<style, ".html">> ELSE <<kw.tpfile, "">>
        shown == Sliced(f.data.features)
        map_data == [i \in 1..Len(shown) |-> Point(shown[i])]
    IN  IF kw.env # Absent /\ ~IsEnvironment(kw.env)
        THEN Raise("ValueError", <<"env must be a Jinja2 Environment">>)
        ELSE IF kw.env # Absent /\ kw.tpfile = Absent
        THEN Raise("ValueError", <<"tpfile argument not supplied">>)
        ELSE IF \E i \in 1..Len(shown) : ~Unpacks(shown[i])
        THEN Raise("ValueError", <<"values to unpack">>)
        ELSE IF tpfile \notin TemplatesOf(env)
        THEN Raise("TemplateNotFound", tpfile)
        ELSE [outcome |-> "ok", msg |-> tpfile, map_data |-> map_data,
              html |-> Render(tpfile, map_data, f)]

CreateGoogleMapResult(f, kw) ==
    LET env == IF kw.env = Absent THEN "package_env" ELSE kw.env
        style == IF kw.style = Absent THEN "plain" ELSE kw.style
        tpfile == IF kw.env = Absent THEN <<style, ".html">> ELSE <<kw.tpfile, "">>
        shown == Sliced(f.data.features)
        map_data == [i \in 1..Len(shown) |-> Point(shown[i])]
    IN  IF kw.env = Absent /\ style \notin MAP_STYLES
        THEN Raise("ValueError", <<"invalid map style">>)
        ELSE IF kw.env # Absent /\ ~IsEnvironment(kw.env)
        THEN Raise("ValueError", <<"env must be a Jinja2 Environment">>)
        ELSE IF kw.env # Absent /\ kw.tpfile = Absent
        THEN Raise("ValueError", <<"tpfile argument not supplied">>)
        ELSE IF \E i \in 1..Len(shown) : ~Unpacks(shown[i])
        THEN Raise("ValueError", <<"values to unpack">>)
        ELSE IF tpfile \notin TemplatesOf(env)
        THEN Raise("TemplateNotFound", tpfile)
        ELSE [outcome |-> "ok", msg |-> tpfile, map_data |-> map_data,
              html |-> Render(tpfile, map_data, f)]

\* print(html, file=f): the text, then a newline
PrintTo(text, html) == text \o html \o <<Str("\n")>>

\* the destinations of write_google_map: None, a file name, an open text
\* handle (writable or not), or some other object
Outputs ==
    {[kind |-> "None"], [kind |-> "other"]}
    \cup [kind : {"str"}, path : {"map.html", "nodir/map.html"}]
    \cup [kind : {"TextIOBase"}, writable : BOOLEAN]

\* open(path, "wt") succeeds for a name in an existing directory
CanOpen(path) == path \notin {"", "nodir/map.html"}
Exists(fs, path) == path \in DOMAIN fs
\* the file system after open(path, "at"): the file exists, its text kept
OpenAt(fs, path) == [q \in DOMAIN fs \cup {path} |-> IF q \in DOMAIN fs THEN fs[q] ELSE << >>]
\* the file system after open(path, "wt"): the file exists and is empty
OpenWt(fs, path) == [q \in DOMAIN fs \cup {path} |-> IF q = path THEN << >> ELSE fs[q]]
\* with open(path, "wt") as outfile: print(html, file=outfile)
WriteFile(fs, path, html) ==
    [OpenWt(fs, path) EXCEPT ![path] = PrintTo(OpenWt(fs, path)[path], html)]

World(fs, out, snk) == [files |-> fs, stdout |-> out, sink |-> snk]

\* write_google_map(output, **kwargs): the outcome and the file system,
\* standard output and the caller's handle afterwards
WriteGoogleMapResult(f, output, kw, w) ==
    LET c == CreateGoogleMapResult(f, kw)
    IN  IF c.outcome # "ok" THEN [outcome |-> c.outcome, msg |-> c.msg, html |-> << >>, world |-> w]
        ELSE IF output.kind = "None"
        THEN [outcome |-> "ok", msg |-> << >>, html |-> c.html,
              world |-> [w EXCEPT !.stdout = PrintTo(w.stdout, c.html)]]
        ELSE IF output.kind = "str"
        THEN IF CanOpen(output.path)
             THEN [outcome |-> "ok", msg |-> << >>, html |-> c.html,
                   world |-> [w EXCEPT !.files = WriteFile(w.files, output.path, c.html)]]
             ELSE [outcome |-> "FileNotFoundError", msg |-> <<output.path>>, html |-> c.html,
                   world |-> w]
        ELSE IF output.kind = "TextIOBase"
        THEN IF output.writable
             THEN [outcome |-> "ok", msg |-> << >>, html |-> c.html,
                   world |-> [w EXCEPT !.sink = PrintTo(w.sink, c.html)]]
             ELSE [outcome |-> "IOError", msg |-> <<"destination not writable">>, html |-> c.html,
                   world |-> w]
        ELSE [outcome |-> "ValueError", msg |-> <<"unsuitable output">>, html |-> c.html, world |-> w]

\* "[{}, {}, 'M{}: {}'],".format(lat, lon, mag, place)
RowText(event) ==
    <<Str("["), Num(event.geometry.coordinates[2]), Str(", "),
      Num(event.geometry.coordinates[1]), Str(", 'M"), Num(event.properties.mag),
      Str(": "), event.properties.place, Str("'],")>>

\* "\n".join(rows)
RECURSIVE JoinLines(_)
JoinLines(rows) ==
    IF rows = << >> THEN << >>
    ELSE IF Len(rows) = 1 THEN rows[1]
    ELSE rows[1] \o <<Str("\n")>> \o JoinLines(Tail(rows))

\* generate_map(data, filename) of the older module: every feature is plotted;
\* the HTML is returned and, given a non-empty file name, also written
Filenames == {Absent, "", "map.html", "nodir/map.html"}

GenerateMapResult(data, filename, w) ==
    LET fs == data.features
        html == <<Str("MAP_TEMPLATE head")>> \o JoinLines([i \in 1..Len(fs) |-> RowText(fs[i])])
                \o <<Str("MAP_TEMPLATE tail")>>
    IN  IF \E i \in 1..Len(fs) : ~Unpacks(fs[i])
        THEN [outcome |-> "ValueError", msg |-> <<"values to unpack">>, html |-> << >>, world |-> w]
        ELSE IF filename \in {Absent, ""}
        THEN [outcome |-> "ok", msg |-> << >>, html |-> html, world |-> w]
        ELSE IF CanOpen(filename)
        THEN [outcome |-> "ok", msg |-> << >>, html |-> html,
              world |-> [w EXCEPT !.files = WriteFile(w.files, filename, html)]]
        ELSE [outcome |-> "FileNotFoundError", msg |-> <<filename>>, html |-> html, world |-> w]

\* html = feed.create_google_map(**kw)
CreateGoogleMap(kw) ==
    /\ feed.alive
    /\ calls < MaxCalls
    /\ LET c == CreateGoogleMapResult(feed, kw)
       IN  call' = [op |-> "create", kwargs |-> kw, outcome |-> c.outcome, msg |-> c.msg,
                    map_data |-> c.map_data, html |-> c.html, wrote |-> FALSE]
    /\ calls' = calls + 1
    /\ UNCHANGED <<feed, requests, lastGood, epoch, iters, files, stdout, sink, proc>>

\* feed.write_google_map(output, **kw)
WriteGoogleMap(output, kw) ==
    /\ feed.alive
    /\ calls < MaxCalls
    /\ LET w == World(files, stdout, sink)
           r == WriteGoogleMapResult(feed, output, kw, w)
       IN  /\ files' = r.world.files
           /\ stdout' = r.world.stdout
           /\ sink' = r.world.sink
           /\ call' = [op |-> "write", kwargs |-> kw, output |-> output, outcome |-> r.outcome,
                       msg |-> r.msg, html |-> r.html, wrote |-> r.world # w]
    /\ calls' = calls + 1
    /\ UNCHANGED <<feed, requests, lastGood, epoch, iters, proc>>

\* html = generate_map(feed.data, filename)
GenerateMap(filename) ==
    /\ feed.alive
    /\ calls < MaxCalls
    /\ LET w == World(files, stdout, sink)
           r == GenerateMapResult(feed.data, filename, w)
       IN  /\ files' = r.world.files
           /\ stdout' = r.world.stdout
           /\ sink' = r.world.sink
           /\ call' = [op |-> "generate_map", filename |-> filename, outcome |-> r.outcome,
                       msg |-> r.msg, html |-> r.html, wrote |-> r.world # w]
    /\ calls' = calls + 1
    /\ UNCHANGED <<feed, requests, lastGood, epoch, iters, proc>>

\* the feeds rendered: at most MaxEvents features cut from the cycle
\* EvA, EvB, EvFour, EvTwo at any of its first three places
MCyc(i) == CASE i % 4 = 1 -> EvA [] i % 4 = 2 -> EvB [] i % 4 = 3 -> EvFour [] OTHER -> EvTwo
MapDocs == {Doc(k, TRUE, [i \in 1..k |-> MCyc(i + s)]) : k \in 0..MaxEvents, s \in 0..2}
MapResponses == [status : {200}, body : {JsonBody(d) : d \in MapDocs}]

ConstructMap == \E resp \in MapResponses : Construct("all", "day", resp)
CreateAny == \E kw \in Kwargs : CreateGoogleMap(kw)
WriteAny == \E output \in Outputs, kw \in Kwargs : WriteGoogleMap(output, kw)
GenerateAny == \E filename \in Filenames : GenerateMap(filename)

NextMap == ConstructMap \/ CreateAny \/ WriteAny \/ GenerateAny

SpecMap == Init /\ [][NextMap]_vars

\* the long feeds: N features for N up to MaxEvents and for N within MaxOver of
\* max_points, all well formed or with a two-element position at the end
LongLens == (0..MaxEvents) \cup ((max_points - MaxOver)..(max_points + MaxOver))
LongFeatures(n, bad) == [i \in 1..n |-> IF i = bad THEN EvTwo ELSE EvAt(i)]
LongDocs == {Doc(n, TRUE, LongFeatures(n, IF b THEN n ELSE 0)) : n \in LongLens, b \in BOOLEAN}
LongResponses == [status : {200}, body : {JsonBody(d) : d \in LongDocs}]

ConstructLong == \E resp \in LongResponses : Construct("all", "day", resp)

NextLong == ConstructLong \/ CreateAny

SpecLong == Init /\ [][NextLong]_vars

----------------------------------------------------------------------------
(* The command line programs.  argv is the command line after the program  *)
(* name.  A process ends with a usage message, with the help text, with an *)
(* uncaught exception (a traceback) or normally.                           *)

Tokens == {"-o", "-s", "-h", "-x", "ALL", "bogus", "day", "map.html"}
Argvs == SeqsUpTo(Tokens, MaxArgs)

IsOption(t) == t \in {"-o", "-s", "-h", "-x"}

\* docopt(__doc__) for "Usage: <prog> [options] <level> <period>" with the
\* options -h, -o <file> and -s <style>, given as allowed = {"-h", "-o", "-s"}
\* (quakemap) or {"-h"} (quakestats): the scan of argv from position i
RECURSIVE DocoptScan(_, _, _, _)
DocoptScan(argv, i, allowed, acc) ==
    IF i > Len(argv) THEN acc
    ELSE LET t == argv[i] IN
         IF ~IsOption(t) THEN DocoptScan(argv, i + 1, allowed, [acc EXCEPT !.pos = Append(@, t)])
         ELSE IF t \notin allowed THEN [acc EXCEPT !.bad = TRUE]
         ELSE IF t = "-h" THEN DocoptScan(argv, i + 1, allowed, [acc EXCEPT !.help = TRUE])
         ELSE IF i = Len(argv) THEN [acc EXCEPT !.bad = TRUE]
         ELSE IF t = "-o"
         THEN DocoptScan(argv, i + 2, allowed,
                         [acc EXCEPT !.o = argv[i + 1], !.extra = @ \/ acc.o # Absent])
         ELSE DocoptScan(argv, i + 2, allowed,
                         [acc EXCEPT !.s = argv[i + 1], !.extra = @ \/ acc.s # Absent])

NoArgs == [parse |-> "usage", level |-> Absent, period |-> Absent, o |-> Absent, s |-> Absent]

Docopt(argv, allowed) ==
    LET a == DocoptScan(argv, 1, allowed,
                        [pos |-> << >>, o |-> Absent, s |-> Absent, help |-> FALSE,
                         bad |-> FALSE, extra |-> FALSE])
    IN  IF a.bad THEN NoArgs
        ELSE IF a.help THEN [NoArgs EXCEPT !.parse = "help"]
        ELSE IF a.extra \/ Len(a.pos) # 2 THEN NoArgs
        ELSE [parse |-> "ok", level |-> a.pos[1], period |-> a.pos[2],
              o |-> a.o, s |-> IF a.s = Absent THEN "plain" ELSE a.s]

\* try: level = sys.argv[1]; period = sys.argv[2]; filename = sys.argv[3]
\* except: sys.exit("Usage: ...")
ScriptArgs(argv) ==
    IF Len(argv) < 3 THEN NoArgs
    ELSE [parse |-> "ok", level |-> argv[1], period |-> argv[2], o |-> argv[3], s |-> Absent]

Range(q) == {q[i] : i \in 1..Len(q)}

\* the k-th smallest element of a list, as sorted(data)[k - 1]
Kth(q, k) ==
    CHOOSE x \in Range(q) :
        /\ Cardinality({i \in 1..Len(q) : q[i] < x}) < k
        /\ Cardinality({i \in 1..Len(q) : q[i] <= x}) >= k

RECURSIVE Sum(_)
Sum(q) == IF q = << >> THEN 0 ELSE Head(q) + Sum(Tail(q))

\* statistics.mean and statistics.median as exact fractions <<numerator, denominator>>
Mean(q) == <<Sum(q), Len(q)>>
Median(q) ==
    IF Len(q) % 2 = 1 THEN <<Kth(q, (Len(q) + 1) \div 2), 1>>
    ELSE <<Kth(q, Len(q) \div 2) + Kth(q, (Len(q) \div 2) + 1), 2>>

\* how a process ended
Ended(prog, a, exit, error, sent, w0, w) ==
    [op |-> "run", prog |-> prog, parse |-> a.parse, level |-> a.level, period |-> a.period,
     exit |-> exit, error |-> error, sent |-> sent, wrote |-> w # w0, world |-> w]

\* quakefeeds/scripts/quakemap.py: main()
QuakemapMain(argv, resp, w) ==
    LET a == Docopt(argv, {"-h", "-o", "-s"}) IN
    IF a.parse # "ok" THEN Ended("quakemap", a, a.parse, "SystemExit", 0, w, w)
    ELSE LET r == QuakeFeedInit(a.level, a.period, resp) IN
         IF r.outcome # "ok" THEN Ended("quakemap", a, "traceback", r.outcome, r.sent, w, w)
         ELSE LET output == IF a.o = Absent THEN [kind |-> "None"]
                            ELSE [kind |-> "str", path |-> a.o]
                  m == WriteGoogleMapResult(r.obj, output, [NoKwargs EXCEPT !.style = a.s], w)
              IN  IF m.outcome # "ok"
                  THEN Ended("quakemap", a, "traceback", m.outcome, r.sent, w, m.world)
                  ELSE Ended("quakemap", a, "ok", "none", r.sent, w, m.world)

\* quakefeeds/scripts/quakestats.py: main()
QuakestatsMain(argv, resp, w) ==
    LET a == Docopt(argv, {"-h"}) IN
    IF a.parse # "ok" THEN Ended("quakestats", a, a.parse, "SystemExit", 0, w, w)
    ELSE LET r == QuakeFeedInit(a.level, a.period, resp) IN
         IF r.outcome # "ok" THEN Ended("quakestats", a, "traceback", r.outcome, r.sent, w, w)
         ELSE LET fs == r.obj.data.features
                  mags == ListOf("magnitudes", fs)
                  deep == Drain(NewGen("depths"), fs)
              IN  IF mags = << >>
                  THEN Ended("quakestats", a, "traceback", "StatisticsError", r.sent, w, w)
                  ELSE IF deep.state = "failed"
                  THEN Ended("quakestats", a, "traceback", "IndexError", r.sent, w, w)
                  ELSE Ended("quakestats", a, "ok", "none", r.sent, w,
                             [w EXCEPT !.stdout = @ \o
                                 <<<<"events processed.", Length(r.obj), 1>>,
                                   <<"Mean magnitude">> \o Mean(mags),
                                   <<"Median magnitude">> \o Median(mags),
                                   <<"Mean depth">> \o Mean(deep.out),
                                   <<"Median depth">> \o Median(deep.out)>>])

\* scripts/quakemap.py: the call feed.create_google_map(filename, style="titled")
\* passes a positional argument to a method that takes none, a TypeError
ScriptQuakemap(argv, resp, w) ==
    LET a == ScriptArgs(argv) IN
    IF a.parse # "ok" THEN Ended("scripts/quakemap.py", a, "usage", "SystemExit", 0, w, w)
    ELSE LET r == QuakeFeedInit(a.level, a.period, resp) IN
         IF r.outcome # "ok"
         THEN Ended("scripts/quakemap.py", a, "traceback", r.outcome, r.sent, w, w)
         ELSE Ended("scripts/quakemap.py", a, "traceback", "TypeError", r.sent, w, w)

\* quakemap.py of the older module: get_data, then generate_map
LegacyQuakemap(argv, resp, w) ==
    LET a == ScriptArgs(argv) IN
    IF a.parse # "ok" THEN Ended("quakemap.py", a, "usage", "SystemExit", 0, w, w)
    ELSE LET r == GetDataResult(a.level, a.period, resp) IN
         IF r.outcome # "ok" THEN Ended("quakemap.py", a, "traceback", r.outcome, r.sent, w, w)
         ELSE LET m == GenerateMapResult(r.obj.data, a.o, w) IN
              IF m.outcome # "ok"
              THEN Ended("quakemap.py", a, "traceback", m.outcome, r.sent, w, m.world)
              ELSE Ended("quakemap.py", a, "ok", "none", r.sent, w, m.world)

\* a process runs from start to exit; the model follows one process
Exit(e) ==
    /\ proc' = [e EXCEPT !.world = << >>]
    /\ requests' = requests + e.sent
    /\ files' = e.world.files
    /\ stdout' = e.world.stdout
    /\ sink' = e.world.sink
    /\ UNCHANGED <<feed, calls, call, lastGood, epoch, iters>>

CliDocs == {Doc(0, TRUE, << >>), Doc(2, TRUE, <<EvA, EvB>>), Doc(2, TRUE, <<EvB, EvTwo>>)}
CliResponses ==
    [status : {200}, body : {TextBody} \cup {JsonBody(d) : d \in CliDocs}]
    \cup {[status |-> 404, body |-> TextBody]}

RunQuakemap ==
    /\ proc = NoCall
    /\ \E argv \in Argvs, resp \in CliResponses :
          Exit(QuakemapMain(argv, resp, World(files, stdout, sink)))
RunQuakestats ==
    /\ proc = NoCall
    /\ \E argv \in Argvs, resp \in CliResponses :
          Exit(QuakestatsMain(argv, resp, World(files, stdout, sink)))
RunScriptQuakemap ==
    /\ proc = NoCall
    /\ \E argv \in Argvs, resp \in CliResponses :
          Exit(ScriptQuakemap(argv, resp, World(files, stdout, sink)))
RunLegacyQuakemap ==
    /\ proc = NoCall
    /\ \E argv \in Argvs, resp \in CliResponses :
          Exit(LegacyQuakemap(argv, resp, World(files, stdout, sink)))

NextCli == RunQuakemap \/ RunQuakestats \/ RunScriptQuakemap \/ RunLegacyQuakemap

SpecCli == Init /\ [][NextCli]_vars

----------------------------------------------------------------------------
(* Properties of construction and refresh, checked under Spec *)

\* C1: a QuakeFeed(level, period) or get_data(level, period) call whose level or
\* period is outside the allowed sets (compared case-insensitively) raises
\* ValueError, produces no feed object, and issues no HTTP request.
C1_InvalidPairRejected ==
    (call.op \in {"construct", "get_data"} /\ ~ValidPair(call.level, call.period))
        => /\ call.outcome = "ValueError"
           /\ call.ret = NoFeed
           /\ (call.op = "construct" => feed = NoFeed)
           /\ requests = call.reqBefore

C1_Witness ==
    /\ call.op = "construct"
    /\ call.level = "ALL"
    /\ call.period = "year"
    /\ call.outcome = "ValueError"
    /\ calls = 2
    /\ requests = 1

\* C2: refresh is all-or-nothing.  A refresh whose re-fetch fails (a status other
\* than 200, or a body that is not JSON) leaves the feed exactly as it was; a
\* refresh that succeeds leaves the feed holding the whole new document; at all
\* times the data of a feed is the body of the most recent successful fetch
\* (call.changed records whether the call altered any field of feed.data).
C2_RefreshAllOrNothing ==
    /\ feed.alive => feed.data = lastGood
    /\ (call.op = "refresh" /\ (call.status # 200 \/ ~call.json)) => ~call.changed
    /\ (call.op = "refresh" /\ call.outcome # "ok") => ~call.changed
    /\ (call.op = "refresh" /\ call.changed) => (call.outcome = "ok" /\ call.offered)

C2_Witness ==
    /\ call.op = "refresh"
    /\ call.status = 404
    /\ call.json
    /\ call.sent = 1
    /\ call.offered
    /\ ~call.changed
    /\ epoch = 1
    /\ feed.data = lastGood

\* C3: for a valid (level, period), a response whose status is not 200 makes
\* QuakeFeed(level, period) raise IOError carrying that status; the body is not
\* handed to the JSON decoder, nothing is stored and no feed object is produced.
C3_Non200IsIOError ==
    (call.op = "construct" /\ ValidPair(call.level, call.period) /\ call.status # 200)
        => /\ call.outcome = "IOError"
           /\ call.msg = <<"HTTP status code", call.status>>
           /\ ~call.parsed
           /\ call.ret = NoFeed
           /\ feed = NoFeed

C3_Witness ==
    /\ call.op = "construct"
    /\ call.level = "ALL"
    /\ call.period = "Week"
    /\ call.status = 204
    /\ call.json
    /\ call.outcome = "IOError"

\* C4: len(feed) equals the number of events that iterating feed.events yields.
C4_LenIsEventCount ==
    feed.alive => Length(feed) = Len(ListOf("events", feed.data.features))

----------------------------------------------------------------------------
(* Properties of the generators, checked under SpecIter *)

\* what a generator over the features fs has yielded after n steps
Yielded(kind, fs, n) == [i \in 1..n |-> Project(kind, fs[i])]

\* C10: the generators have no shared cursor.  Under every interleaving of the
\* next() calls on the generators obtained from a feed, and with no refresh since
\* a generator was obtained, the generator has yielded exactly the projections
\* of the first pos stored events, in stored order; it ends only after the last
\* event (or at an event its projection is not defined on), whatever the other
\* generator has done; and the feed's data is still the fetched document.
C10_GeneratorsIndependent ==
    /\ feed.alive => feed.data = lastGood
    /\ \A s \in Slots :
          LET g == iters[s] IN
          (g.state # "absent" /\ ~g.stale) =>
             LET fs == feed.data.features IN
             /\ g.pos <= Len(fs)
             /\ g.out = Yielded(g.kind, fs, g.pos)
             /\ g.state = "new" => g.pos = 0
             /\ g.state = "done" => g.pos = Len(fs)
             /\ g.state = "failed" => ~CanProject(g.kind, fs[g.pos + 1])
             /\ g.state \in {"running", "done", "failed"} => g.src = fs

C10_Witness ==
    /\ iters["g1"].state = "done"
    /\ iters["g2"].state = "running"
    /\ iters["g1"].kind = "locations"
    /\ iters["g2"].kind = "locations"
    /\ Len(iters["g1"].out) = 2
    /\ Len(iters["g2"].out) = 1
    /\ ~iters["g1"].stale
    /\ ~iters["g2"].stale
    /\ epoch = 1

----------------------------------------------------------------------------
(* Properties of the map renderer *)

WellFormed(f) == \A i \in 1..Len(f.data.features) : Unpacks(f.data.features[i])

\* C5 (under SpecLong): the points create_google_map hands to the template are
\* min(N, 300) in number, never more than 300, and the i-th point carries the
\* magnitude and place of the i-th event of the feed.
C5_AtMostMaxPoints ==
    (call.op = "create" /\ call.outcome = "ok") =>
        LET fs == feed.data.features IN
        /\ Len(call.map_data) = Min(Len(fs), 300)
        /\ Len(call.map_data) <= 300
        /\ \A i \in 1..Len(call.map_data) :
              /\ call.map_data[i][3] = fs[i].properties.mag
              /\ call.map_data[i][4] = fs[i].properties.place

C5_Witness ==
    /\ call.op = "create"
    /\ call.outcome = "ok"
    /\ Len(feed.data.features) = 302
    /\ Len(call.map_data) = 300
    /\ ~WellFormed(feed)

\* C6 (under SpecMap): for a feed whose events each have a position of at least
\* three elements, create_google_map with a built-in style builds its point list
\* and the i-th point is (latitude, longitude, magnitude, place) of the i-th event.
C6_PointsForThreeOrMore ==
    (/\ call.op = "create"
     /\ call.kwargs.env = Absent
     /\ call.kwargs.style \in {Absent} \cup MAP_STYLES
     /\ \A i \in 1..Len(feed.data.features) :
           Len(feed.data.features[i].geometry.coordinates) >= 3)
        => /\ call.outcome = "ok"
           /\ Len(call.map_data) = Len(feed.data.features)
           /\ \A i \in 1..Len(call.map_data) :
                 LET e == feed.data.features[i] IN
                 call.map_data[i] = <<e.geometry.coordinates[2], e.geometry.coordinates[1],
                                      e.properties.mag, e.properties.place>>

\* C7 as stated (under SpecMap): after write_google_map to a file path, or
\* generate_map with a file name, the file holds exactly the returned string.
C7_FileEqualsHtml ==
    /\ (call.op = "write" /\ call.output.kind = "str" /\ call.outcome = "ok")
          => /\ Exists(files, call.output.path)
             /\ files[call.output.path] = CreateGoogleMapResult(feed, call.kwargs).html
    /\ (call.op = "generate_map" /\ call.filename \notin {Absent, ""} /\ call.outcome = "ok")
          => /\ Exists(files, call.filename)
             /\ files[call.filename] = call.html

\* C7 as amended (under SpecMap): when write_google_map to a file path returns,
\* the file exists and its full contents are the string create_google_map
\* returns for the same feed and options followed by one newline, whatever the
\* file held before; likewise for generate_map with a file name.
C7_FileIsHtmlThenNewline ==
    /\ (call.op = "write" /\ call.output.kind = "str" /\ call.outcome = "ok")
          => /\ Exists(files, call.output.path)
             /\ files[call.output.path] =
                   Append(CreateGoogleMapResult(feed, call.kwargs).html, Str("\n"))
    /\ (call.op = "generate_map" /\ call.filename \notin {Absent, ""} /\ call.outcome = "ok")
          => /\ Exists(files, call.filename)
             /\ files[call.filename] = Append(call.html, Str("\n"))

C7_Witness ==
    /\ call.op = "write"
    /\ call.output.kind = "str"
    /\ call.outcome = "ok"
    /\ call.kwargs.style = "titled"
    /\ Len(feed.data.features) = 2
    /\ calls = 3
    /\ Len(files[call.output.path]) = 19

BadStyle(kw) == kw.style \notin {Absent} \cup MAP_STYLES
OneOverrideOnly(kw) == (kw.env = Absent) # (kw.tpfile = Absent)

\* C8 as stated (under SpecMap): create_google_map, alone or through
\* write_google_map, raises ValueError, returns no HTML and writes nothing when
\* the style is not a built-in style or when only one of env, tpfile is given.
C8_BadOptionsRaise ==
    (call.op \in {"create", "write"} /\ (BadStyle(call.kwargs) \/ OneOverrideOnly(call.kwargs)))
        => /\ call.outcome = "ValueError"
           /\ call.html = << >>
           /\ ~call.wrote

\* C8 as amended (under SpecMap): ValueError, no HTML and nothing written when
\* no env is given and the style is not a built-in style, or when an env is
\* given without a tpfile.  A tpfile given without an env is ignored (the
\* built-in style is rendered), and a style given with an env is ignored.
C8_ConfigErrors ==
    /\ (/\ call.op \in {"create", "write"}
        /\ \/ (call.kwargs.env = Absent /\ BadStyle(call.kwargs))
           \/ (call.kwargs.env # Absent /\ call.kwargs.tpfile = Absent))
          => /\ call.outcome = "ValueError"
             /\ call.html = << >>
             /\ ~call.wrote
    /\ (/\ call.op = "create"
        /\ call.kwargs.env = Absent
        /\ call.kwargs.tpfile # Absent
        /\ ~BadStyle(call.kwargs)
        /\ WellFormed(feed))
          => /\ call.outcome = "ok"
             /\ call.html = CreateGoogleMapResult(feed, [call.kwargs EXCEPT !.tpfile = Absent]).html
    /\ (/\ call.op = "create"
        /\ call.kwargs.env = "custom_env"
        /\ call.kwargs.tpfile = "custom.html"
        /\ WellFormed(feed))
          => /\ call.outcome = "ok"
             /\ call.html =
                   CreateGoogleMapResult(feed, [call.kwargs EXCEPT !.style = Absent]).html

C8_Witness ==
    /\ call.op = "write"
    /\ call.kwargs.env = "custom_env"
    /\ call.kwargs.tpfile = Absent
    /\ call.outcome = "ValueError"
    /\ call.output.kind = "str"
    /\ call.output.path = "map.html"
    /\ Exists(files, "map.html")
    /\ calls = 3

----------------------------------------------------------------------------
(* Properties of the command line programs, checked under SpecCli *)

\* C9 as stated: a process given missing or invalid arguments, or a level or
\* period outside the allowed sets, ends with a usage message, having issued no
\* request and written nothing.
C9_BadInputGivesUsage ==
    (/\ proc.op = "run"
     /\ \/ proc.parse = "usage"
        \/ (proc.parse = "ok" /\ ~ValidPair(proc.level, proc.period)))
        => /\ proc.exit = "usage"
           /\ proc.sent = 0
           /\ requests = 0
           /\ ~proc.wrote

\* C9 as amended: a process whose arguments do not parse ends with a usage
\* message; a process whose level or period is outside the allowed sets ends with
\* an uncaught ValueError and no usage message; in both cases no request has
\* been issued and nothing has been written.
C9_BadInputNoRequestNoOutput ==
    /\ (proc.op = "run" /\ proc.parse = "usage")
          => /\ proc.exit = "usage"
             /\ proc.sent = 0
             /\ requests = 0
             /\ ~proc.wrote
             /\ files = << >> /\ stdout = << >>
    /\ (proc.op = "run" /\ proc.parse = "ok" /\ ~ValidPair(proc.level, proc.period))
          => /\ proc.exit = "traceback"
             /\ proc.error = "ValueError"
             /\ proc.sent = 0
             /\ requests = 0
             /\ ~proc.wrote
             /\ files = << >> /\ stdout = << >>

C9_Witness ==
    /\ proc.op = "run"
    /\ proc.prog = "quakestats"
    /\ proc.parse = "ok"
    /\ proc.level = "ALL"
    /\ proc.period = "bogus"
    /\ proc.exit = "traceback"
    /\ proc.error = "ValueError"

====
